---- MODULE Spec2Model ----
(***************************************************************************)
(* Spherical tensors of the e3nn tutorial notebooks (data_types.ipynb,      *)
(* simple_tasks_and_symmetry.ipynb): representation lists, the flat        *)
(* index = L^2 + m coefficient layout, projection of a point geometry onto *)
(* the real spherical-harmonic basis, block-diagonal Wigner-D rotation and *)
(* evaluation of the signal.                                               *)
(*                                                                         *)
(* Numbers are exact integers.  The basis functions are the unnormalised   *)
(* real harmonic polynomials in the order the notebook prints them         *)
(* (1 | y z x | xy yz 2z^2-x^2-y^2 zx x^2-y^2), evaluated on directions     *)
(* stored as integer vectors of length DirScale.  Rotations range over the *)
(* eight proper rotations that map the z axis to itself (the rotation      *)
(* group of the square of the second notebook), for which every Wigner-D   *)
(* block is an integer matrix.                                             *)
(***************************************************************************)
EXTENDS Integers, Sequences, FiniteSets, TLC

VARIABLES
    pc,           \* position in the pipeline: "start", "built", "rotated", "evaluated", "failed"
    points,       \* the input geometry: a sequence of 3D points
    L_max,        \* the degree bound passed to from_geometry
    radius_opt,   \* configuration: weight each point by its radius instead of 1
    zero_opt,     \* configuration: zero-weight points at the origin instead of failing
    sphten,       \* the SphericalTensor built from the geometry (or NoTensor)
    rot,          \* the rotation last applied (3x3 matrix)
    rotated,      \* the SphericalTensor returned by rotate (or NoTensor)
    vals,         \* the values returned by evaluate, one per sampled direction
    err,          \* the error raised to the caller ("none" when none)
    nextId,       \* identity of the next instance to be allocated
    \* data_types.ipynb: representation lists and tensors built from coefficients
    rs_pc,        \* position in the cell being run
    nb_Lmax,      \* the notebook's global L_max
    Rs,           \* the notebook's representation list Rs
    sum_Ls,       \* the notebook's sum_Ls
    tensor,       \* the coefficient vector passed to SphericalTensor
    lmax_arg,     \* the degree bound passed to SphericalTensor
    made,         \* the SphericalTensor constructed (or NoTensor)
    entries,      \* the entries a representation list is constructed from
    rs_obj,       \* the representation list constructed (<<>> when none)
    rs_err,       \* the error raised to the caller ("none" when none)
    loop,         \* (L, m) of the basis-tensor loop
    C_shape,      \* shape the Clebsch-Gordan tensor C is reshaped to
    \* simple_tasks_and_symmetry.ipynb: the training tasks
    net_pc,       \* "start", "input" (input cell run), "training", "trained"
    task,         \* the task whose cells are being run (0 before the first)
    input,        \* the network input, (L_max + 1)**2 coefficients
    weights,      \* the parameters of the model, one per degree
    output,       \* the last output of the model
    iter,         \* iterations of the training loop run so far
    network,      \* what the notebook name Network is bound to ("unbound" before)
    model_cls,    \* class and representation lists of the model Network() returned
    moves,        \* input_optimizer steps that changed the input so far
    printed,      \* the per-degree slices of the input printed so far
    \* calls of from_geometry, evaluate and rotate running side by side
    calls,        \* per slot: the call in progress and its arguments
    bufs,         \* per slot: the accumulator of the call in progress
    default_dtype,\* torch's process-wide default dtype
    prev_eval,    \* the last evaluate call whose result was taken
    \* data_types.ipynb: a 3x3 matrix between Cartesian and spherical index order
    perm_pc,      \* position in the cells: "start", "permuted", "rotated", "restored"
    M,            \* the matrix M, indices in (x, y, z) order
    perm_M,       \* M read in (y, z, x) order
    rotated_M,    \* M rotated, in (x, y, z) order
    rotated_perm_M, \* the rotated matrix in (y, z, x) order
    rotated_M_prime, \* rotated_perm_M converted back to (x, y, z) order
    \* simple_tasks_and_symmetry.ipynb, Task 4: gradients and optimizer steps
    param_grad,   \* .grad of model.parameters(): the losses accumulated since it was cleared
    input_grad,   \* input.grad: the losses accumulated since it was cleared
    applied,      \* the optimizer that stepped last and the gradient it stepped with
    model_updates,\* steps of param_optimizer in the alternating loop so far
    input_updates \* steps of input_optimizer in the alternating loop so far

pipeVars == <<pc, points, L_max, radius_opt, zero_opt, sphten, rot, rotated, vals, err, nextId>>

rsVars == <<rs_pc, nb_Lmax, Rs, sum_Ls, tensor, lmax_arg, made, entries, rs_obj, rs_err, loop, C_shape>>

netVars == <<net_pc, task, input, weights, output, iter, network, model_cls, moves, printed>>

callVars == <<calls, bufs, default_dtype, prev_eval>>

permVars == <<perm_pc, M, perm_M, rotated_M, rotated_perm_M, rotated_M_prime>>

gradVars == <<param_grad, input_grad, applied, model_updates, input_updates>>

vars == <<pipeVars, rsVars, netVars, callVars, permVars, gradVars>>

(* the variables an action of one group leaves alone *)
notPipe == <<rsVars, netVars, callVars, permVars, gradVars>>

notRs == <<pipeVars, netVars, callVars, permVars, gradVars>>

notNet == <<pipeVars, rsVars, callVars, permVars, gradVars>>

notCalls == <<pipeVars, rsVars, netVars, permVars, gradVars>>

notPerm == <<pipeVars, rsVars, netVars, callVars, gradVars>>

(* the variables the cells of Task 4 leave alone *)
notTask4 == <<pipeVars, rsVars, callVars, permVars>>

----------------------------------------------------------------------------
(* Bounds of the model *)

MaxPoints == 2     \* points per geometry
MaxRadius == 2     \* multiples of a base vector used as a point
MaxLmax == 3       \* the notebook's L_max ranges over 0..MaxLmax
MaxEntries == 2    \* entries of a representation list given as input
MaxLen == 5        \* length of a coefficient vector given as input
NetLmax == 2       \* L_max of the network's input and output
MaxW == 1          \* parameters of the model range over -MaxW..MaxW
MaxIter == 2       \* iterations of a training loop
CallLmax == 1      \* degree bound of the calls run side by side
MaxMoves == 1      \* optimizer steps of Task 4 that change a value
MatMax == 1        \* entries of the matrix M range over 0..MatMax

(* Highest degree of the printed basis table "1 y z x xy yz * zx %" *)
TableLmax == 2

(* L_max = 5 of simple_tasks_and_symmetry.ipynb: a 36-entry input *)
TaskLmax == 5

(* for i in range(21): the parameter-only loop of Task 4 *)
ParamIters == 21

(* for i in range(101): the alternating loop of Task 4 *)
AltIters == 101

(* Unit directions are stored multiplied by DirScale so that they are integer *)
DirScale == 3

----------------------------------------------------------------------------
(* Small linear algebra over integers *)

Abs(n) == IF n < 0 THEN -n ELSE n

RECURSIVE SumTo(_, _)
SumTo(f, n) == IF n = 0 THEN 0 ELSE f[n] + SumTo(f, n - 1)

(* Sum of a sequence of integers *)
SeqSum(s) == SumTo(s, Len(s))

Dot(u, v) == SeqSum([i \in 1..Len(u) |-> u[i] * v[i]])

Scale(v, k) == [i \in 1..Len(v) |-> k * v[i]]

MatVec(A, v) == [i \in 1..Len(A) |-> Dot(A[i], v)]

Transpose(A) == [i \in 1..Len(A[1]) |-> [j \in 1..Len(A) |-> A[j][i]]]

MatMul(A, B) == [i \in 1..Len(A) |-> [j \in 1..Len(B[1]) |->
                    SeqSum([k \in 1..Len(B) |-> A[i][k] * B[k][j]])]]

Identity3 == <<<<1, 0, 0>>, <<0, 1, 0>>, <<0, 0, 1>>>>

Zeros(n) == [i \in 1..n |-> 0]

(* Frobenius inner product of two square matrices *)
Frob(A, B) == SeqSum([i \in 1..Len(A) |-> Dot(A[i], B[i])])

----------------------------------------------------------------------------
(* Geometry *)

Origin == <<0, 0, 0>>

NormSq(p) == Dot(p, p)

(* radii = vectors.norm(2, -1); exact on the points of the model *)
Norm(p) == LET s == NormSq(p) IN CHOOSE n \in 0..s : n * n = s

(* the unit direction of a point, stored times DirScale *)
Direction(p) == LET r == Norm(p) IN [i \in 1..3 |-> (DirScale * p[i]) \div r]

(* base vectors of the geometries: two axes and a generic direction *)
BaseVectors == {<<1, 0, 0>>, <<0, 0, 1>>, <<1, 2, 2>>}

PointPool == {Scale(u, k) : u \in BaseVectors, k \in 1..MaxRadius} \cup {Origin}

Geometries == UNION {[1..n -> PointPool] : n \in 1..MaxPoints}

\* rot = o3.rot(angles): the rotations about z by multiples of 90 degrees,
\* alone or after the half turn about x
Rz90 == <<<<0, -1, 0>>, <<1, 0, 0>>, <<0, 0, 1>>>>

Rx180 == <<<<1, 0, 0>>, <<0, -1, 0>>, <<0, 0, -1>>>>

RECURSIVE MatPow(_, _)
MatPow(A, k) == IF k = 0 THEN Identity3 ELSE MatMul(A, MatPow(A, k - 1))

Rotations == {MatPow(Rz90, k) : k \in 0..3}
             \cup {MatMul(MatPow(Rz90, k), Rx180) : k \in 0..3}

(* torch.einsum('xy,jy->jx', rot, points): every point rotated *)
RotatePoints(G, R) == [j \in 1..Len(G) |-> MatVec(R, G[j])]

----------------------------------------------------------------------------
(* Representation lists and the flat coefficient layout *)

(* Rs = [(1, L) for L in range(L_max + 1)], parity defaulting to 0 *)
SphericalRs(lmax) == [k \in 1..(lmax + 1) |-> <<1, k - 1, 0>>]

(* faulty variant: degree blocks two apart, so that neighbours overlap *)
Index_overlap(L, m) == 2 * L + m

(* faulty variant: the orders of a degree laid out in reverse *)
Index_reversed(L, m) == L * L + (2 * L - m)

(* tensor[L**2 + m]: flat (0-based) index of basis function (L, m) *)
Index(L, m) == L * L + m

(* the coefficient at a 0-based flat index *)
At(signal, i) == signal[i + 1]

(* degree and order of a 0-based flat index of a spherical tensor *)
DegreeOf(i) == CHOOSE L \in 0..i : L * L <= i /\ i < (L + 1) * (L + 1)

OrderOf(i) == i - DegreeOf(i) * DegreeOf(i)

----------------------------------------------------------------------------
(* Real spherical harmonics, in the printed order                          *)
(*   SH:  1 | y z x | xy yz * zx %,  * == 2z^2 - x^2 - y^2,  % == x^2 - y^2 *)

Y00 == 1

Y(L, m, d) ==
    LET x == d[1]
        y == d[2]
        z == d[3]
    IN  CASE L = 0 -> Y00
          [] L = 1 -> <<y, z, x>>[m + 1]
          [] L = 2 -> <<x * y, y * z, 2 * z * z - x * x - y * y, z * x,
                        x * x - y * y>>[m + 1]

(* Cartesian-to-spherical index permutation (x, y, z) -> (y, z, x):        *)
(* M[torch.tensor([1, 2, 0]).unsqueeze(1), torch.tensor([1, 2, 0]).unsqueeze(0)] *)
Perm == <<2, 3, 1>>

Gather(A) == [i \in 1..3 |-> [j \in 1..3 |-> A[Perm[i]][Perm[j]]]]

(* symmetric traceless matrices of the five L = 2 basis functions *)
QuadBasis ==
    << <<<<0, 1, 0>>, <<1, 0, 0>>, <<0, 0, 0>>>>,
       <<<<0, 0, 0>>, <<0, 0, 1>>, <<0, 1, 0>>>>,
       <<<<-1, 0, 0>>, <<0, -1, 0>>, <<0, 0, 2>>>>,
       <<<<0, 0, 1>>, <<0, 0, 0>>, <<1, 0, 0>>>>,
       <<<<1, 0, 0>>, <<0, -1, 0>>, <<0, 0, 0>>>> >>

(* the Wigner-D block of degree l of rotation R: 1 for l = 0, the rotation *)
(* in (y, z, x) order for l = 1, its action on the quadratic basis for     *)
(* l = 2                                                                   *)
WignerBlock(l, R) ==
    CASE l = 0 -> <<<<1>>>>
      [] l = 1 -> Gather(R)
      [] l = 2 -> [a \in 1..5 |-> [b \in 1..5 |->
                     Frob(MatMul(Transpose(R), MatMul(QuadBasis[a], R)), QuadBasis[b])
                        \div Frob(QuadBasis[b], QuadBasis[b])]]

(* the blocks of the rotations of the model, computed once *)
BlockCache == [R \in Rotations |-> [n \in 1..(TableLmax + 1) |-> WignerBlock(n - 1, R)]]

(* o3.irr_repr(l, angles) *)
irr_repr(l, R) ==
    IF R \in Rotations /\ l \in 0..TableLmax THEN BlockCache[R][l + 1] ELSE WignerBlock(l, R)

(* the list [o3.irr_repr(l, angles) for mul, l, parity in Rs for _ in range(mul)] *)
RECURSIVE Blocks(_, _)
Blocks(rs, R) ==
    IF rs = <<>> THEN <<>>
    ELSE [k \in 1..Head(rs)[1] |-> irr_repr(Head(rs)[2], R)] \o Blocks(Tail(rs), R)

RECURSIVE OffsetOf(_, _)
OffsetOf(blocks, b) == IF b = 1 THEN 0 ELSE OffsetOf(blocks, b - 1) + Len(blocks[b - 1])

(* the rows of a block repeated across every block column instead of zeros *)
(* outside the diagonal                                                    *)
direct_sum_dense(blocks) ==
    LET n == OffsetOf(blocks, Len(blocks) + 1)
        BlockOf(i) == CHOOSE b \in 1..Len(blocks) :
                         OffsetOf(blocks, b) < i /\ i <= OffsetOf(blocks, b) + Len(blocks[b])
    IN  [i \in 1..n |-> [j \in 1..n |->
            blocks[BlockOf(i)][i - OffsetOf(blocks, BlockOf(i))]
                              [((j - 1) % Len(blocks[BlockOf(i)])) + 1]]]

(* o3.direct_sum(blocks): the block-diagonal matrix of the blocks, in order *)
direct_sum(blocks) ==
    LET n == OffsetOf(blocks, Len(blocks) + 1)
        BlockOf(i) == CHOOSE b \in 1..Len(blocks) :
                         OffsetOf(blocks, b) < i /\ i <= OffsetOf(blocks, b) + Len(blocks[b])
    IN  [i \in 1..n |-> [j \in 1..n |->
            IF BlockOf(i) = BlockOf(j)
            THEN blocks[BlockOf(i)][i - OffsetOf(blocks, BlockOf(i))][j - OffsetOf(blocks, BlockOf(i))]
            ELSE 0]]

(* the Wigner-D matrices of the spherical representation lists, computed once *)
WignerCache ==
    [R \in Rotations |-> [n \in 1..(TableLmax + 1) |-> direct_sum(Blocks(SphericalRs(n - 1), R))]]

(* faulty variant: the blocks combined into a matrix that mixes the degrees *)
wignerD_dense(rs, R) == direct_sum_dense(Blocks(rs, R))

\* wignerD = o3.direct_sum(irr_repr(l, angles) for mul, l, parity in Rs for _ in range(mul))
wignerD(rs, R) ==
    IF R \in Rotations /\ Len(rs) \in 1..(TableLmax + 1) /\ rs = SphericalRs(Len(rs) - 1)
    THEN WignerCache[R][Len(rs)]
    ELSE direct_sum(Blocks(rs, R))

(* faulty variant: the matrix applied transposed, einsum('ji,j->i') *)
einsum_ji_j(D, I) == [i \in 1..Len(D) |-> SeqSum([j \in 1..Len(I) |-> D[j][i] * I[j]])]

(* torch.einsum('ij,j->i', wignerD, I) *)
einsum_ij_j(D, I) == [i \in 1..Len(D) |-> SeqSum([j \in 1..Len(I) |-> D[i][j] * I[j]])]

----------------------------------------------------------------------------
(* SphericalTensor: a coefficient vector, its representation list and the  *)
(* identity of the instance                                                *)

NoTensor == [signal |-> <<>>, Rs |-> <<>>, id |-> 0]

Tensor(signal, rs, id) == [signal |-> signal, Rs |-> rs, id |-> id]

(* degree bound of a spherical tensor *)
LmaxOf(t) == Len(t.Rs) - 1

(* faulty variant: every point weighted by its radius *)
Weight_radius(p, byRadius) == Norm(p)

(* a point's scalar weight: 1 by default, its radius when so configured *)
Weight(p, byRadius) == IF byRadius THEN Norm(p) ELSE 1

(* one accumulation step: weight w times the basis value at direction d   *)
(* into index L^2 + m                                                     *)
AddBasis(signal, w, d, L, m) ==
    [signal EXCEPT ![Index(L, m) + 1] = @ + w * Y(L, m, d)]

(* orders 0 .. n-1 of degree L *)
RECURSIVE AddOrders(_, _, _, _, _)
AddOrders(signal, w, d, L, n) ==
    IF n = 0 THEN signal
    ELSE AddBasis(AddOrders(signal, w, d, L, n - 1), w, d, L, n - 1)

(* degrees 0 .. n-1 *)
RECURSIVE AddDegrees(_, _, _, _)
AddDegrees(signal, w, d, n) ==
    IF n = 0 THEN signal
    ELSE AddOrders(AddDegrees(signal, w, d, n - 1), w, d, n - 1, 2 * (n - 1) + 1)

(* points 1 .. n; a point at the origin has no direction and weighs zero *)
RECURSIVE AddPoints(_, _, _, _, _)
AddPoints(signal, G, n, lmax, byRadius) ==
    IF n = 0 THEN signal
    ELSE LET before == AddPoints(signal, G, n - 1, lmax, byRadius)
             w == Weight(G[n], byRadius)
             d == Direction(G[n])
         IN  IF G[n] = Origin THEN before
             ELSE AddDegrees(before, w, d, lmax + 1)

Projection(G, lmax, byRadius) ==
    AddPoints(Zeros((lmax + 1) * (lmax + 1)), G, Len(G), lmax, byRadius)

HasOrigin(G) == \E j \in 1..Len(G) : G[j] = Origin

(* faulty variant: origin points are dropped silently whatever the configuration *)
from_geometry_unchecked(G, lmax, byRadius, zeroOrigin, id) ==
    [err |-> "none", points |-> G,
     tensor |-> Tensor(Projection(G, lmax, byRadius), SphericalRs(lmax), id)]

(* SphericalTensor.from_geometry(points, L_max) *)
from_geometry(G, lmax, byRadius, zeroOrigin, id) ==
    IF HasOrigin(G) /\ ~zeroOrigin
    THEN [err |-> "InvalidInputError", points |-> G, tensor |-> NoTensor]
    ELSE [err |-> "none", points |-> G,
          tensor |-> Tensor(Projection(G, lmax, byRadius), SphericalRs(lmax), id)]

(* orders 0 .. n-1 of degree L of the signal at direction d *)
RECURSIVE EvalOrders(_, _, _, _)
EvalOrders(signal, d, L, n) ==
    IF n = 0 THEN 0
    ELSE EvalOrders(signal, d, L, n - 1) + At(signal, Index(L, n - 1)) * Y(L, n - 1, d)

(* degrees 0 .. n-1 *)
RECURSIVE EvalDegrees(_, _, _)
EvalDegrees(signal, d, n) ==
    IF n = 0 THEN 0
    ELSE EvalDegrees(signal, d, n - 1) + EvalOrders(signal, d, n - 1, 2 * (n - 1) + 1)

(* evaluate(tensor, directions): one value per direction, in order *)
evaluate(t, directions) ==
    [k \in 1..Len(directions) |-> EvalDegrees(t.signal, directions[k], LmaxOf(t) + 1)]

(* faulty variant: the rotation written into the argument's own coefficient vector *)
rotate_in_place(t, R, id) ==
    [arg |-> Tensor(einsum_ij_j(wignerD(t.Rs, R), t.signal), t.Rs, t.id),
     result |-> Tensor(einsum_ij_j(wignerD(t.Rs, R), t.signal), t.Rs, t.id)]

(* rotate(tensor, rotation): the argument as the call leaves it, and the   *)
(* new instance it returns                                                 *)
rotate(t, R, id) ==
    [arg |-> t,
     result |-> Tensor(einsum_ij_j(wignerD(t.Rs, R), t.signal), t.Rs, id)]

(* the directions the signal is sampled at *)
SampleGrid ==
    << <<3, 0, 0>>, <<-3, 0, 0>>, <<0, 3, 0>>, <<0, -3, 0>>, <<0, 0, 3>>, <<0, 0, -3>>,
       <<1, 2, 2>>, <<-2, 1, 2>>, <<-1, -2, 2>>, <<2, -1, 2>>,
       <<1, -2, -2>>, <<2, 1, -2>>, <<-1, 2, -2>>, <<-2, -1, -2>> >>

----------------------------------------------------------------------------
(* The builder pipeline: points -> coefficients -> rotated -> evaluated *)

PipeInit ==
    /\ pc = "start"
    /\ points \in Geometries
    /\ L_max \in 0..TableLmax
    /\ radius_opt \in BOOLEAN
    /\ zero_opt \in BOOLEAN
    /\ sphten = NoTensor
    /\ rot = Identity3
    /\ rotated = NoTensor
    /\ vals = <<>>
    /\ err = "none"
    /\ nextId = 1

FromGeometry ==
    /\ pc = "start"
    /\ LET r == from_geometry(points, L_max, radius_opt, zero_opt, nextId)
       IN  /\ err' = r.err
           /\ points' = r.points
           /\ sphten' = r.tensor
           /\ pc' = IF r.err = "none" THEN "built" ELSE "failed"
           /\ nextId' = IF r.err = "none" THEN nextId + 1 ELSE nextId
    /\ UNCHANGED <<L_max, radius_opt, zero_opt, rot, rotated, vals>>
    /\ UNCHANGED notPipe

Rotate ==
    /\ pc = "built"
    /\ \E R \in Rotations :
         LET r == rotate(sphten, R, nextId)
         IN  /\ rot' = R
             /\ sphten' = r.arg
             /\ rotated' = r.result
    /\ nextId' = nextId + 1
    /\ pc' = "rotated"
    /\ UNCHANGED <<points, L_max, radius_opt, zero_opt, vals, err>>
    /\ UNCHANGED notPipe

Evaluate ==
    /\ pc \in {"built", "rotated"}
    /\ vals' = evaluate(IF pc = "built" THEN sphten ELSE rotated, SampleGrid)
    /\ pc' = "evaluated"
    /\ UNCHANGED <<points, L_max, radius_opt, zero_opt, sphten, rot, rotated, err, nextId>>
    /\ UNCHANGED notPipe

(* no pipeline call in progress *)
PipeIdle ==
    /\ pc = "idle"
    /\ points = <<>>
    /\ L_max = 0
    /\ radius_opt = FALSE
    /\ zero_opt = FALSE
    /\ sphten = NoTensor
    /\ rot = Identity3
    /\ rotated = NoTensor
    /\ vals = <<>>
    /\ err = "none"
    /\ nextId = 1

(* no cell of data_types.ipynb run *)
RsIdle ==
    /\ rs_pc = "idle"
    /\ nb_Lmax = 0
    /\ Rs = <<>>
    /\ sum_Ls = 0
    /\ tensor = <<>>
    /\ lmax_arg = 0
    /\ made = NoTensor
    /\ entries = <<>>
    /\ rs_obj = <<>>
    /\ rs_err = "none"
    /\ loop = <<0, 0>>
    /\ C_shape = <<0, 0, 0>>

(* the name Network not bound yet, or no model constructed yet *)
NoNetwork == [cls |-> "unbound", Rs_in |-> <<>>, Rs_hidden |-> <<>>, Rs_out |-> <<>>]

(* no cell of simple_tasks_and_symmetry.ipynb run *)
NetIdle ==
    /\ net_pc = "idle"
    /\ task = 0
    /\ input = <<>>
    /\ weights = <<>>
    /\ output = <<>>
    /\ iter = 0
    /\ network = NoNetwork
    /\ model_cls = NoNetwork
    /\ moves = 0
    /\ printed = <<>>

(* no call in progress *)
NoArgs == [points |-> <<>>, lmax |-> 0, tensor |-> NoTensor, directions |-> <<>>, R |-> <<>>]

NoCall ==
    [op |-> "none", status |-> "idle", args |-> NoArgs, dtype |-> "none",
     k |-> 0, result |-> <<>>, err |-> "none"]

CallIdle ==
    /\ calls = <<NoCall, NoCall>>
    /\ bufs = <<<<>>, <<>>>>
    /\ default_dtype = "float64"
    /\ prev_eval = NoCall

(* no backward pass and no optimizer step run *)
NoStep == [by |-> "none", grad |-> <<>>]

GradIdle ==
    /\ param_grad = <<>>
    /\ input_grad = <<>>
    /\ applied = NoStep
    /\ model_updates = 0
    /\ input_updates = 0

(* the matrix cells of data_types.ipynb not run *)
PermIdle ==
    /\ perm_pc = "idle"
    /\ M = <<>>
    /\ perm_M = <<>>
    /\ rotated_M = <<>>
    /\ rotated_perm_M = <<>>
    /\ rotated_M_prime = <<>>

Init == PipeInit /\ RsIdle /\ NetIdle /\ CallIdle /\ PermIdle /\ GradIdle

Next == FromGeometry \/ Rotate \/ Evaluate

Spec == Init /\ [][Next]_vars

----------------------------------------------------------------------------
(* Properties of the builder pipeline *)

(* sum over the points of weight times basis value (L, m) at the point's   *)
(* unit direction; a zero-weighted origin point adds nothing               *)
PointSum(G, L, m, byRadius) ==
    SeqSum([j \in 1..Len(G) |->
              IF G[j] = Origin THEN 0
              ELSE (IF byRadius THEN Norm(G[j]) ELSE 1) * Y(L, m, Direction(G[j]))])

(* C2: from_geometry returns a tensor of degree bound L_max whose          *)
(* coefficient at index L^2 + m, for every L in 0..L_max and m in 0..2L,   *)
(* is the sum over the points of weight times basis value (L, m) at the    *)
(* point's direction; the vector has exactly these (L_max + 1)^2 indices.  *)
C2_FromGeometryCoefficients ==
    sphten # NoTensor =>
        /\ LmaxOf(sphten) = L_max
        /\ Len(sphten.signal) = (L_max + 1) * (L_max + 1)
        /\ \A L \in 0..L_max : \A m \in 0..(2 * L) :
              sphten.signal[L * L + m + 1] = PointSum(points, L, m, radius_opt)
        /\ \A i \in 1..Len(sphten.signal) :
              \E L \in 0..L_max : \E m \in 0..(2 * L) : i = L * L + m + 1

C2_Witness ==
    /\ pc = "built"
    /\ Len(points) = 2
    /\ L_max = 2
    /\ \A i \in 1..Len(sphten.signal) : sphten.signal[i] # 0

(* C3: building then rotating the tensor gives the same signal, at every   *)
(* sampled direction, as rotating the points then building.                *)
C3_RotationEquivariance ==
    (pc = "evaluated" /\ rotated # NoTensor) =>
        vals = evaluate(from_geometry(RotatePoints(points, rot), L_max,
                                      radius_opt, zero_opt, 0).tensor, SampleGrid)

C3_Witness ==
    /\ pc = "evaluated"
    /\ rotated # NoTensor
    /\ L_max = 2
    /\ Len(points) = 2
    /\ rot = Rz90
    /\ rotated.signal # sphten.signal
    /\ \E k \in 1..Len(vals) : \E j \in 1..Len(vals) : vals[k] # vals[j]

NonOrigin(p) == p # Origin

(* C5: from_geometry fails with InvalidInputError and returns no tensor    *)
(* exactly when some point is at the origin and the zero-weight option is  *)
(* off; with the option on it succeeds and the origin points contribute    *)
(* nothing to any coefficient.                                             *)
C5_OriginPoints ==
    pc # "start" =>
        /\ (HasOrigin(points) /\ ~zero_opt) <=> (err = "InvalidInputError")
        /\ err = "InvalidInputError" => (sphten = NoTensor /\ pc = "failed")
        /\ err = "none" => sphten # NoTensor
        /\ (HasOrigin(points) /\ zero_opt) =>
              sphten.signal = Projection(SelectSeq(points, NonOrigin), L_max, radius_opt)

C5_Witness ==
    /\ pc = "failed"
    /\ err = "InvalidInputError"
    /\ Len(points) = 2
    /\ points[1] # Origin
    /\ points[2] = Origin

(* C8: a single unit-weight point projected with L_max = 0 gives the       *)
(* length-1 vector holding the L = 0 basis constant, and the signal        *)
(* evaluates to that constant times itself at the point's direction and at *)
(* every other direction alike.                                            *)
C8_DegreeZeroRoundTrip ==
    (sphten # NoTensor /\ Len(points) = 1 /\ points[1] # Origin /\ L_max = 0 /\ ~radius_opt) =>
        /\ sphten.signal = <<Y00>>
        /\ (pc = "evaluated" /\ rotated = NoTensor) =>
              /\ \A k \in 1..Len(vals) : vals[k] = Y00 * Y00
              /\ \E k \in 1..Len(vals) :
                    /\ SampleGrid[k] = Direction(points[1])
                    /\ vals[k] = sphten.signal[1] * Y(0, 0, SampleGrid[k])

C8_Witness ==
    /\ pc = "evaluated"
    /\ rotated = NoTensor
    /\ L_max = 0
    /\ ~radius_opt
    /\ points = << <<2, 4, 4>> >>
    /\ vals[7] = Y00 * Y00

(* C9: from_geometry leaves the input points as they were; rotate leaves   *)
(* its argument (coefficients and representation list) as it was and       *)
(* returns an instance of its own; evaluate changes neither tensor nor the *)
(* points.                                                                 *)
C9_NoMutation ==
    [][ /\ (pc = "start" /\ pc' # "start") =>
              (points' = points /\ (sphten' # NoTensor => sphten'.id >= nextId))
        /\ (pc = "built" /\ pc' = "rotated") =>
              /\ sphten' = sphten
              /\ points' = points
              /\ rotated' # NoTensor
              /\ rotated'.id # sphten.id
        /\ (pc # "evaluated" /\ pc' = "evaluated") =>
              (sphten' = sphten /\ rotated' = rotated /\ points' = points)
      ]_vars

C9_Witness ==
    /\ pc = "rotated"
    /\ rot = Rz90
    /\ L_max = 2
    /\ rotated.id # sphten.id
    /\ rotated.signal # sphten.signal

(* the coefficients of degree L of a spherical tensor's vector *)
Block(signal, L) == [k \in 1..(2 * L + 1) |-> signal[L * L + k]]

(* C10: the rotated tensor has the representation list and length of its   *)
(* argument, and its coefficients of each degree L are the Wigner-D block  *)
(* of degree L applied to the argument's coefficients of that degree.      *)
C10_RotateBlockwise ==
    rotated # NoTensor =>
        /\ rotated.Rs = sphten.Rs
        /\ Len(rotated.signal) = Len(sphten.signal)
        /\ \A L \in 0..LmaxOf(sphten) :
              Block(rotated.signal, L) = MatVec(irr_repr(L, rot), Block(sphten.signal, L))

C10_Witness ==
    /\ pc = "rotated"
    /\ L_max = 2
    /\ rot = MatMul(Rz90, Rx180)
    /\ Block(rotated.signal, 1) # Block(sphten.signal, 1)
    /\ Block(rotated.signal, 2) # Block(sphten.signal, 2)

----------------------------------------------------------------------------
(* Representation lists and tensors built from coefficients *)

(* An entry as written by the caller.  The degree is carried in halves,
   twoL = 2L, so that a non-integer degree can be written down. *)
Entry(mul, twoL, p) == [mul |-> mul, twoL |-> twoL, p |-> p]

(* the entry a notebook tuple (mult, L) or (mult, L, p) stands for; a pair
   leaves the parity at its default 0 *)
Raw(rs) ==
    [k \in 1..Len(rs) |->
        Entry(rs[k][1], 2 * rs[k][2], IF Len(rs[k]) = 3 THEN rs[k][3] ELSE 0)]

(* entries offered to the constructor: multiplicities 0..2, degrees -1, 0,
   1/2 and 1, parities -2..1 *)
EntryPool == {Entry(mul, twoL, p) : mul \in 0..2, twoL \in {-2, 0, 1, 2}, p \in -2..1}

EntryLists == UNION {[1..n -> EntryPool] : n \in 1..MaxEntries}

(* multiplicity >= 1, L >= 0 and an integer, p in {-1, 0, 1} *)
Malformed(e) ==
    \/ e.mul < 1
    \/ e.twoL < 0
    \/ e.twoL % 2 # 0
    \/ e.p \notin {-1, 0, 1}

(* the validated representation list: triples (mult, L, p), or the error *)
RepresentationList(raw) ==
    IF \E k \in 1..Len(raw) : Malformed(raw[k])
    THEN [err |-> "InvalidInputError", Rs |-> <<>>]
    ELSE [err |-> "none",
          Rs |-> [k \in 1..Len(raw) |-> <<raw[k].mul, raw[k].twoL \div 2, raw[k].p>>]]

(* rs.dim(Rs): total length of the coefficient vector *)
RECURSIVE dim(_)
dim(rs) ==
    IF rs = <<>> THEN 0
    ELSE Head(rs)[1] * (2 * Head(rs)[2] + 1) + dim(Tail(rs))

(* the irreps |l1 - l2| .. l1 + l2 of the product of two entries *)
ProductEntries(e1, e2) ==
    LET lo == Abs(e1[2] - e2[2])
        hi == e1[2] + e2[2]
    IN  [k \in 1..(hi - lo + 1) |-> <<e1[1] * e2[1], lo + k - 1, 0>>]

RECURSIVE ProductRow(_, _)
ProductRow(e1, rs2) ==
    IF rs2 = <<>> THEN <<>>
    ELSE ProductEntries(e1, Head(rs2)) \o ProductRow(e1, Tail(rs2))

(* rs.tensor_product(Rs_1, Rs_2): representation list of the product *)
RECURSIVE tensor_product(_, _)
tensor_product(rs1, rs2) ==
    IF rs1 = <<>> THEN <<>>
    ELSE ProductRow(Head(rs1), rs2) \o tensor_product(Tail(rs1), rs2)

(* Rs_vec = [(1, 1)] *)
Rs_vec == <<<<1, 1>>>>

(* faulty variant: the tuples written as (L, mult) *)
RsPairs_swapped(lmax) == [k \in 1..(lmax + 1) |-> <<k - 1, 1>>]

(* Rs = [(1, L) for L in range(L_max + 1)] *)
RsPairs(lmax) == [k \in 1..(lmax + 1) |-> <<1, k - 1>>]

(* faulty variant: the parity entry holds -L *)
RsParity_signed(lmax) == [k \in 1..(lmax + 1) |-> <<1, k - 1, -(k - 1)>>]

(* Rs = [(1, L, (-1)**L) for L in range(L_max + 1)] *)
RsParity(lmax) ==
    [k \in 1..(lmax + 1) |-> <<1, k - 1, IF (k - 1) % 2 = 0 THEN 1 ELSE -1>>]

(* faulty variant: the sum forgets the m = 0 order of every degree *)
RECURSIVE sum_Ls_even(_)
sum_Ls_even(rs) ==
    IF rs = <<>> THEN 0
    ELSE 2 * Head(rs)[2] + sum_Ls_even(Tail(rs))

(* sum(2 * L + 1 for mult, L in Rs) *)
RECURSIVE sum_Ls_of(_)
sum_Ls_of(rs) ==
    IF rs = <<>> THEN 0
    ELSE (2 * Head(rs)[2] + 1) + sum_Ls_of(Tail(rs))

(* SphericalTensor(signal, lmax): the length must be the one the degree
   bound implies *)
SphericalTensor(signal, lmax, id) ==
    IF Len(signal) # dim(SphericalRs(lmax))
    THEN [err |-> "DimensionMismatchError", tensor |-> NoTensor]
    ELSE [err |-> "none", tensor |-> Tensor(signal, SphericalRs(lmax), id)]

(* faulty variant: a vector just long enough to hold index L**2 + m *)
BasisTensor_short(L, m) ==
    [i \in 1..(Index(L, m) + 1) |-> IF i - 1 = Index(L, m) THEN 1 ELSE 0]

(* tensor = torch.zeros((L + 1)**2); tensor[L**2 + m] = 1.0 *)
BasisTensor(L, m) ==
    [i \in 1..((L + 1) * (L + 1)) |-> IF i - 1 = Index(L, m) THEN 1 ELSE 0]

(* the (L, m) visited after (L, m) by
   for L in range(L_max + 1): for m in range(0, 2 * L + 1) *)
NextLM(lm) == IF lm[2] < 2 * lm[1] THEN <<lm[1], lm[2] + 1>> ELSE <<lm[1] + 1, 0>>

(* values torch.randn may fill a vector with *)
Fill == {-1, 0, 1}

(* inputs: a notebook about to run a cell with some L_max, an entry list
   handed to RepresentationList, or a coefficient vector and degree bound
   handed to SphericalTensor *)
RsInit ==
    /\ Rs = <<>>
    /\ sum_Ls = 0
    /\ lmax_arg = 0
    /\ made = NoTensor
    /\ rs_obj = <<>>
    /\ rs_err = "none"
    /\ loop = <<0, 0>>
    /\ C_shape = <<0, 0, 0>>
    /\ \/ /\ rs_pc = "notebook"
          /\ nb_Lmax \in 0..MaxLmax
          /\ entries = <<>>
          /\ tensor = <<>>
       \/ /\ rs_pc = "list"
          /\ nb_Lmax = 0
          /\ entries \in EntryLists
          /\ tensor = <<>>
       \/ /\ rs_pc = "coeffs"
          /\ nb_Lmax \in 0..MaxLmax
          /\ entries = <<>>
          /\ tensor \in {Zeros(n) : n \in 0..MaxLen}

(* RepresentationList(entries) *)
MakeRs ==
    /\ rs_pc = "list"
    /\ LET r == RepresentationList(entries)
       IN  /\ rs_err' = r.err
           /\ rs_obj' = r.Rs
           /\ rs_pc' = IF r.err = "none" THEN "listed" ELSE "failed"
    /\ UNCHANGED <<nb_Lmax, Rs, sum_Ls, tensor, lmax_arg, made, entries, loop, C_shape>>
    /\ UNCHANGED notRs

(* the GatedConvParityNetwork cell: Rs with parity (-1)**L handed to the
   network as Rs_in and Rs_out *)
NetworkCell ==
    /\ rs_pc = "notebook"
    /\ Rs' = RsParity(nb_Lmax)
    /\ entries' = Raw(Rs')
    /\ LET r == RepresentationList(entries')
       IN  /\ rs_err' = r.err
           /\ rs_obj' = r.Rs
           /\ rs_pc' = IF r.err = "none" THEN "listed" ELSE "failed"
    /\ UNCHANGED <<nb_Lmax, sum_Ls, tensor, lmax_arg, made, loop, C_shape>>
    /\ UNCHANGED notRs

(* the tensor-product cell: Rs_3x3 and the shape
   (rs.dim(Rs_3x3), rs.dim(Rs_vec), rs.dim(Rs_vec)) C is reshaped to *)
TensorProductCell ==
    /\ rs_pc = "notebook"
    /\ nb_Lmax = 0
    /\ LET raw == Raw(Rs_vec)
           Rs_in == [k \in 1..Len(raw) |-> <<raw[k].mul, raw[k].twoL \div 2, raw[k].p>>]
           Rs_3x3 == tensor_product(Rs_in, Rs_in)
       IN  /\ Rs' = Rs_3x3
           /\ C_shape' = <<dim(Rs_3x3), dim(Rs_in), dim(Rs_in)>>
    /\ rs_pc' = "product"
    /\ UNCHANGED <<nb_Lmax, sum_Ls, tensor, lmax_arg, made, entries, rs_obj, rs_err, loop>>
    /\ UNCHANGED notRs

(* the random-tensor cell: Rs, sum_Ls, torch.randn(sum_Ls) and
   SphericalTensor(rand_sph_tensor, L_max) *)
RandomTensorCell ==
    /\ rs_pc = "notebook"
    /\ \E v \in Fill :
        LET rs == RsPairs(nb_Lmax)
            n == sum_Ls_of(rs)
            rand_sph_tensor == [i \in 1..n |-> v]
            r == SphericalTensor(rand_sph_tensor, nb_Lmax, 1)
        IN  /\ Rs' = rs
            /\ sum_Ls' = n
            /\ tensor' = rand_sph_tensor
            /\ lmax_arg' = nb_Lmax
            /\ made' = r.tensor
            /\ rs_err' = r.err
            /\ rs_pc' = IF r.err = "none" THEN "random" ELSE "failed"
    /\ UNCHANGED <<nb_Lmax, entries, rs_obj, loop, C_shape>>
    /\ UNCHANGED notRs

(* one iteration of the basis-function loop *)
BasisIteration ==
    /\ rs_pc \in {"notebook", "basis"}
    /\ LET lm == IF rs_pc = "notebook" THEN <<0, 0>> ELSE NextLM(loop)
           r == SphericalTensor(BasisTensor(lm[1], lm[2]), lm[1], 1)
       IN  /\ lm[1] <= nb_Lmax
           /\ loop' = lm
           /\ tensor' = BasisTensor(lm[1], lm[2])
           /\ lmax_arg' = lm[1]
           /\ made' = r.tensor
           /\ rs_err' = r.err
           /\ rs_pc' = IF r.err = "none" THEN "basis" ELSE "failed"
    /\ UNCHANGED <<nb_Lmax, Rs, sum_Ls, entries, rs_obj, C_shape>>
    /\ UNCHANGED notRs

(* SphericalTensor(tensor, nb_Lmax) on a caller's vector *)
Construct ==
    /\ rs_pc = "coeffs"
    /\ LET r == SphericalTensor(tensor, nb_Lmax, 1)
       IN  /\ lmax_arg' = nb_Lmax
           /\ made' = r.tensor
           /\ rs_err' = r.err
           /\ rs_pc' = IF r.err = "none" THEN "constructed" ELSE "failed"
    /\ UNCHANGED <<nb_Lmax, Rs, sum_Ls, tensor, entries, rs_obj, loop, C_shape>>
    /\ UNCHANGED notRs

NextRs ==
    \/ MakeRs
    \/ NetworkCell
    \/ TensorProductCell
    \/ RandomTensorCell
    \/ BasisIteration
    \/ Construct

InitRs == PipeIdle /\ RsInit /\ NetIdle /\ CallIdle /\ PermIdle /\ GradIdle

SpecRs == InitRs /\ [][NextRs]_vars

----------------------------------------------------------------------------
(* Properties of representation lists and construction *)

(* the sum over the entries of mult * (2L+1), written as an indexed sum *)
EntrySum(rs) == SeqSum([k \in 1..Len(rs) |-> rs[k][1] * (2 * rs[k][2] + 1)])

(* the pairs of the notebook as (mult, L, p) triples *)
Triples(rs) == [k \in 1..Len(rs) |-> <<rs[k][1], rs[k][2], 0>>]

(* C1: for every representation list, dim(Rs) is the sum over its entries of
   mult * (2L+1); for Rs = [(1, L) for L in 0..L_max] the value is
   (L_max+1)^2, which is sum_Ls, the length of the coefficient vector passed
   to SphericalTensor; for Rs_3x3 and Rs_vec it gives the shape
   (9, 3, 3) of C. *)
C1_DimIsEntrySum ==
    /\ rs_pc = "listed" => dim(rs_obj) = EntrySum(rs_obj)
    /\ rs_pc \in {"random", "failed"} /\ Rs # <<>> /\ entries = <<>> =>
        /\ dim(Triples(Rs)) = EntrySum(Triples(Rs))
        /\ dim(Triples(Rs)) = (nb_Lmax + 1) * (nb_Lmax + 1)
        /\ sum_Ls = dim(Triples(Rs))
        /\ Len(tensor) = (nb_Lmax + 1) * (nb_Lmax + 1)
    /\ rs_pc = "product" =>
        /\ dim(Rs) = EntrySum(Rs)
        /\ C_shape = <<9, 3, 3>>

C1_Witness ==
    /\ rs_pc = "random"
    /\ nb_Lmax >= 2
    /\ sum_Ls = Len(tensor)
    /\ made.signal = tensor

(* C6: a representation list with any malformed entry (multiplicity below 1,
   negative L, non-integer L, parity outside {-1, 0, 1}) is refused with
   InvalidInputError at the call: no list and no tensor is produced and
   nothing runs afterwards; a list without such an entry, as the notebook's
   Rs with parity (-1)**L, is accepted. *)
C6_MalformedEntryRaises ==
    [][ /\ (MakeRs \/ NetworkCell) =>
            LET bad == \E k \in 1..Len(entries') :
                          \/ entries'[k].mul < 1
                          \/ entries'[k].twoL < 0
                          \/ entries'[k].twoL % 2 = 1
                          \/ entries'[k].p < -1
                          \/ entries'[k].p > 1
            IN  /\ bad <=> rs_err' = "InvalidInputError"
                /\ bad => rs_pc' = "failed" /\ rs_obj' = <<>> /\ made' = NoTensor
                /\ ~bad => rs_pc' = "listed" /\ Len(rs_obj') = Len(entries')
        /\ NetworkCell => rs_err' = "none" /\ rs_obj' = Rs'
        /\ rs_err # "none" => FALSE
      ]_vars

C6_Witness ==
    /\ rs_pc = "failed"
    /\ rs_err = "InvalidInputError"
    /\ Len(entries) = 2
    /\ ~Malformed(entries[1])
    /\ entries[2].twoL = 1

(* C7: constructing a SphericalTensor from a coefficient vector whose length
   differs from (lmax+1)^2 raises DimensionMismatchError; construction
   succeeds only when the two lengths are equal, as in the notebook's
   constructions. *)
C7_LengthMismatchRaises ==
    [][ /\ (RandomTensorCell \/ BasisIteration \/ Construct) =>
            /\ Len(tensor') # (lmax_arg' + 1) * (lmax_arg' + 1) =>
                /\ rs_err' = "DimensionMismatchError"
                /\ made' = NoTensor
                /\ rs_pc' = "failed"
            /\ Len(tensor') = (lmax_arg' + 1) * (lmax_arg' + 1) =>
                /\ rs_err' = "none"
                /\ made'.signal = tensor'
                /\ dim(made'.Rs) = Len(tensor')
        /\ (RandomTensorCell \/ BasisIteration) => rs_err' = "none"
      ]_vars

C7_Witness ==
    /\ rs_pc = "failed"
    /\ rs_err = "DimensionMismatchError"
    /\ Len(tensor) = 5
    /\ lmax_arg = 1

(* an entry of a list is well formed: a pair (mult, L) or a triple
   (mult, L, p), with mult >= 1, L >= 0 and p in {-1, 0, 1} *)
WellFormedTuple(e) ==
    /\ Len(e) \in {2, 3}
    /\ e[1] >= 1
    /\ e[2] >= 0
    /\ Len(e) = 3 => e[3] \in {-1, 0, 1}

(* C13 as stated: every representation list the program builds or receives
   is a sequence of (multiplicity, L, parity) triples with
   multiplicity >= 1, L >= 0 and parity in {-1, 0, 1}, the notebooks' Rs and
   Rs_3x3 included. *)
C13_AllTriples ==
    \A k \in 1..Len(Rs) :
        /\ Len(Rs[k]) = 3
        /\ Rs[k][1] >= 1
        /\ Rs[k][2] >= 0
        /\ Rs[k][3] \in {-1, 0, 1}

(* C13: every list the notebooks write is a sequence of (mult, L) pairs or
   of (mult, L, p) triples, a pair standing for parity 0, with mult >= 1,
   L >= 0 and p in {-1, 0, 1}: [(1, L) for L in 0..L_max] is a list of
   pairs, the list with parity (-1)**L and the tensor-product result Rs_3x3
   are lists of triples; every list RepresentationList accepts is a
   sequence of such triples. *)
C13_PairsOrTriples ==
    /\ \A k \in 1..Len(Rs) : WellFormedTuple(Rs[k])
    /\ \A k \in 1..Len(Raw(Rs)) : ~Malformed(Raw(Rs)[k])
    /\ rs_pc \in {"random", "failed"} /\ Rs # <<>> /\ entries = <<>> =>
        \A k \in 1..Len(Rs) : Len(Rs[k]) = 2
    /\ rs_pc = "product" =>
        /\ Len(Rs) = 3
        /\ \A k \in 1..Len(Rs) : Len(Rs[k]) = 3 /\ Rs[k][3] = 0
    /\ \A k \in 1..Len(rs_obj) :
        /\ Len(rs_obj[k]) = 3
        /\ WellFormedTuple(rs_obj[k])
    /\ rs_pc = "listed" => Len(rs_obj) = Len(entries) /\ Len(rs_obj) >= 1

C13_Witness ==
    /\ rs_pc = "random"
    /\ nb_Lmax = 2
    /\ Rs = <<<<1, 0>>, <<1, 1>>, <<1, 2>>>>

(* the (L, m) pairs of a spherical tensor of degree bound lmax *)
LMPairs(lmax) == {lm \in (0..lmax) \X (0..(2 * lmax)) : lm[2] <= 2 * lm[1]}

(* C19: for a spherical tensor, (L, m) -> L^2 + m with 0 <= m <= 2L is a
   bijection onto 0 .. (L_max+1)^2 - 1: the write tensor[L**2 + m] of the
   basis loop is in bounds of the (L+1)^2-long vector and lands where the
   loop says, distinct (L, m) never share an index, and the degree blocks
   are contiguous and in increasing L. *)
C19_IndexBijection ==
    /\ rs_pc = "basis" =>
        /\ Len(tensor) = (loop[1] + 1) * (loop[1] + 1)
        /\ Index(loop[1], loop[2]) >= 0
        /\ Index(loop[1], loop[2]) < Len(tensor)
        /\ \A i \in 0..(Len(tensor) - 1) :
              At(tensor, i) = (IF i = Index(loop[1], loop[2]) THEN 1 ELSE 0)
    /\ \A a, b \in LMPairs(nb_Lmax) :
          Index(a[1], a[2]) = Index(b[1], b[2]) => a = b
    /\ {Index(a[1], a[2]) : a \in LMPairs(nb_Lmax)} =
          0..((nb_Lmax + 1) * (nb_Lmax + 1) - 1)
    /\ \A L \in 0..nb_Lmax :
          /\ \A m \in 0..(2 * L - 1) : Index(L, m + 1) = Index(L, m) + 1
          /\ L < nb_Lmax => Index(L + 1, 0) = Index(L, 2 * L) + 1

C19_Witness ==
    /\ rs_pc = "basis"
    /\ nb_Lmax = 3
    /\ loop = <<3, 6>>
    /\ At(tensor, 15) = 1
    /\ Len(tensor) = 16

----------------------------------------------------------------------------
(* The training tasks of simple_tasks_and_symmetry.ipynb *)

Tasks == 1..3

(* faulty variant: every task's input carries the x^2 - y^2 component *)
TaskInput_broken(t) ==
    [i \in 1..((NetLmax + 1) * (NetLmax + 1)) |-> IF i - 1 \in {0, 8} THEN 1 ELSE 0]

(* input = torch.zeros((L_max + 1)**2); input[0] = 1; and, in Task 3,
   input[8] = 1  # x^2 - y^2 *)
TaskInput(t) ==
    [i \in 1..((NetLmax + 1) * (NetLmax + 1)) |->
        IF i - 1 = 0 \/ (t = 3 /\ i - 1 = 8) THEN 1 ELSE 0]

(* parameters of a degree-preserving linear network on one copy of each
   degree: one scalar per degree *)
WeightSpace == [0..NetLmax -> -MaxW..MaxW]

(* model = Network(): freshly initialised parameters *)
Network == WeightSpace

(* model(input): every coefficient scaled by the parameter of its degree *)
model(w, in) == [i \in 1..Len(in) |-> w[DegreeOf(i - 1)] * in[i]]

(* optimizer.step(): one parameter moved by one unit, or none *)
OptimizerStep(w) ==
    UNION {{[w EXCEPT ![L] = v] : v \in {x \in -MaxW..MaxW : Abs(x - w[L]) <= 1}} :
              L \in 0..NetLmax}

NetInit ==
    /\ net_pc = "start"
    /\ task = 0
    /\ input = <<>>
    /\ weights = <<>>
    /\ output = <<>>
    /\ iter = 0
    /\ network = NoNetwork
    /\ model_cls = NoNetwork
    /\ moves = 0
    /\ printed = <<>>

(* Rs = [(1, L) for L in range(L_max + 1)]
   Network = partial(GatedConvNetwork, Rs_in=Rs, Rs_hidden=Rs, Rs_out=Rs, ...) *)
GatedConvNetworkCell ==
    /\ net_pc = "start"
    /\ network' = [cls |-> "GatedConvNetwork", Rs_in |-> RsPairs(NetLmax),
                   Rs_hidden |-> RsPairs(NetLmax), Rs_out |-> RsPairs(NetLmax)]
    /\ net_pc' = "bound_first"
    /\ UNCHANGED <<task, input, weights, output, iter, model_cls, moves, printed>>
    /\ UNCHANGED notNet

(* Rs = [(1, L, (-1)**L) for L in range(L_max + 1)]
   Network = partial(GatedConvParityNetwork, Rs_in=Rs, mul=5, Rs_out=Rs, ...):
   the name Network is bound anew *)
GatedConvParityNetworkCell ==
    /\ net_pc = "bound_first"
    /\ network' = [cls |-> "GatedConvParityNetwork", Rs_in |-> RsParity(NetLmax),
                   Rs_hidden |-> <<>>, Rs_out |-> RsParity(NetLmax)]
    /\ net_pc' = "bound"
    /\ UNCHANGED <<task, input, weights, output, iter, model_cls, moves, printed>>
    /\ UNCHANGED notNet

(* the cells opening a task: model = Network() and the input *)
InputCell ==
    /\ net_pc \in {"bound", "trained"}
    /\ model_cls' = network
    /\ task + 1 \in Tasks
    /\ task' = task + 1
    /\ weights' \in Network
    /\ input' = TaskInput(task')
    /\ output' = <<>>
    /\ iter' = 0
    /\ net_pc' = "input"
    /\ UNCHANGED <<network, moves, printed>>
    /\ UNCHANGED notNet

(* one iteration of for i in range(51): forward pass, then the optimizer
   step *)
TrainStep ==
    /\ net_pc \in {"input", "training"}
    /\ iter < MaxIter
    /\ output' = model(weights, input)
    /\ weights' \in OptimizerStep(weights)
    /\ iter' = iter + 1
    /\ net_pc' = "training"
    /\ UNCHANGED <<task, input, network, model_cls, moves, printed>>
    /\ UNCHANGED notNet

(* the loop has run its iterations *)
LoopEnd ==
    /\ net_pc = "training"
    /\ iter = MaxIter
    /\ net_pc' = "trained"
    /\ UNCHANGED <<task, input, weights, output, iter, network, model_cls, moves, printed>>
    /\ UNCHANGED notNet

NextNet ==
    \/ GatedConvNetworkCell
    \/ GatedConvParityNetworkCell
    \/ InputCell
    \/ TrainStep
    \/ LoopEnd

InitNet == PipeIdle /\ RsIdle /\ NetInit /\ CallIdle /\ PermIdle /\ GradIdle

SpecNet == InitNet /\ [][NextNet]_vars

----------------------------------------------------------------------------
(* Properties of the training tasks *)

(* the flat indices above degree 0: the symmetry-breaking components *)
Breaking == 1..((NetLmax + 1) * (NetLmax + 1) - 1)

(* C4: with only the degree-0 component in the input (input[0] = 1, all
   other coefficients 0) every output coefficient at a symmetry-breaking
   index stays zero, whatever the parameters; an output coefficient can be
   nonzero only if the input has a nonzero coefficient of the same degree,
   as input[8] for output[8]. *)
C4_SymmetryDegreeMonotonicity ==
    output # <<>> =>
        /\ task \in {1, 2} => \A i \in Breaking : At(output, i) = 0
        /\ (\A i \in Breaking : At(input, i) = 0) =>
            \A i \in Breaking : At(output, i) = 0
        /\ \A i \in Breaking :
            At(output, i) # 0 =>
                \E j \in Breaking : DegreeOf(j) = DegreeOf(i) /\ At(input, j) # 0
        /\ At(output, 8) # 0 => At(input, 8) # 0

C4_Witness ==
    /\ task = 2
    /\ net_pc = "trained"
    /\ weights[2] # 0
    /\ At(output, 0) # 0
    /\ At(output, 8) = 0

(* C15: with the cells run in order, the model every task constructs by
   Network() is the default GatedConvNetwork, with the list
   Rs = [(1, L) for L in 0..L_max] as Rs_in, Rs_hidden and Rs_out. *)
C15_DefaultNetwork ==
    model_cls # NoNetwork =>
        /\ model_cls.cls = "GatedConvNetwork"
        /\ model_cls.Rs_in = RsPairs(NetLmax)
        /\ model_cls.Rs_hidden = RsPairs(NetLmax)
        /\ model_cls.Rs_out = RsPairs(NetLmax)

----------------------------------------------------------------------------
(* Task 4: the input is optimised together with the model *)

(* faulty variant: the reset writes the first L = 1 component *)
ResetScalar_shifted(in) == [in EXCEPT ![2] = 1]

(* with torch.no_grad(): input[0] = 1 *)
ResetScalar(in) == [in EXCEPT ![1] = 1]

(* input = torch.zeros((L_max + 1)**2, requires_grad=True); input[0] = 1 *)
Task4Input == ResetScalar(Zeros((NetLmax + 1) * (NetLmax + 1)))

(* parameters a fresh model of Task 4 starts from: all zero or all one *)
Task4Parameters == {w \in Network : \E v \in {0, 1} : \A L \in 0..NetLmax : w[L] = v}

(* input_optimizer.step(): the optimizer holds the whole input vector, the
   scalar included; one component moved by one unit, or none *)
InputOptimizerStep(in) ==
    {in} \cup {[in EXCEPT ![i] = in[i] + d] : i \in 1..Len(in), d \in {-1, 1}}

(* the loss of one half of one iteration: the loop, its counter i, and
   whether the half updates the model or the input *)
Loss(phase, i, half) == [phase |-> phase, i |-> i, half |-> half]

(* faulty variant: zero_grad leaves the accumulated gradient in place *)
ZeroGrad_keep(g) == g

(* optimizer.zero_grad(): the gradient of every variable the optimizer
   holds is cleared *)
ZeroGrad(g) == <<>>

(* loss.backward(): the gradient of the loss is added to .grad of every
   leaf the loss depends on, the parameters and the input alike *)
Backward(g, loss) == Append(g, loss)

(* the cell opening Task 4: model = Network(), the input and the two
   optimizers *)
Task4Cell ==
    /\ net_pc = "bound"
    /\ model_cls' = network
    /\ task' = 4
    /\ weights' \in Task4Parameters
    /\ input' = Task4Input
    /\ output' = <<>>
    /\ iter' = 0
    /\ moves' = 0
    /\ net_pc' = "param_loop"
    /\ UNCHANGED <<network, printed>>
    /\ param_grad' = <<>>
    /\ input_grad' = <<>>
    /\ applied' = NoStep
    /\ model_updates' = 0
    /\ input_updates' = 0
    /\ UNCHANGED notTask4

(* one iteration of for i in range(21): forward pass, loss,
   param_optimizer.zero_grad(), loss.backward() and the step of
   param_optimizer, which holds model.parameters() only *)
ParamStep ==
    /\ net_pc = "param_loop"
    /\ iter < ParamIters
    /\ output' = model(weights, input)
    /\ weights' \in OptimizerStep(weights)
    /\ weights' # weights => moves < MaxMoves
    /\ moves' = IF weights' # weights THEN moves + 1 ELSE moves
    /\ iter' = iter + 1
    /\ UNCHANGED <<net_pc, task, input, network, model_cls, printed>>
    /\ param_grad' = Backward(ZeroGrad(param_grad), Loss("param", iter, "model"))
    /\ input_grad' = Backward(input_grad, Loss("param", iter, "model"))
    /\ applied' = [by |-> "model", grad |-> param_grad']
    /\ UNCHANGED <<model_updates, input_updates>>
    /\ UNCHANGED notTask4

(* range(21) is exhausted; the next cell starts for i in range(101) *)
ParamLoopEnd ==
    /\ net_pc = "param_loop"
    /\ iter = ParamIters
    /\ iter' = 0
    /\ net_pc' = "alt_model"
    /\ UNCHANGED <<task, input, weights, output, network, model_cls, moves, printed>>
    /\ UNCHANGED gradVars
    /\ UNCHANGED notTask4

(* first half of an alternating iteration: forward pass, loss,
   param_optimizer.zero_grad(), loss.backward(), param_optimizer.step() *)
AltModelStep ==
    /\ net_pc = "alt_model"
    /\ iter < AltIters
    /\ output' = model(weights, input)
    /\ weights' \in OptimizerStep(weights)
    /\ weights' # weights => moves < MaxMoves
    /\ moves' = IF weights' # weights THEN moves + 1 ELSE moves
    /\ net_pc' = "alt_input"
    /\ UNCHANGED <<task, input, iter, network, model_cls, printed>>
    /\ param_grad' = Backward(ZeroGrad(param_grad), Loss("alt", iter, "model"))
    /\ input_grad' = Backward(input_grad, Loss("alt", iter, "model"))
    /\ applied' = [by |-> "model", grad |-> param_grad']
    /\ model_updates' = model_updates + 1
    /\ UNCHANGED input_updates
    /\ UNCHANGED notTask4

(* second half: forward pass, loss with the sparsity penalty,
   input_optimizer.zero_grad(), loss.backward(), input_optimizer.step() *)
AltInputStep ==
    /\ net_pc = "alt_input"
    /\ output' = model(weights, input)
    /\ input' \in InputOptimizerStep(input)
    /\ input' # input => moves < MaxMoves
    /\ moves' = IF input' # input THEN moves + 1 ELSE moves
    /\ net_pc' = "alt_reset"
    /\ UNCHANGED <<task, weights, iter, network, model_cls, printed>>
    /\ input_grad' = Backward(ZeroGrad(input_grad), Loss("alt", iter, "input"))
    /\ param_grad' = Backward(param_grad, Loss("alt", iter, "input"))
    /\ applied' = [by |-> "input", grad |-> input_grad']
    /\ input_updates' = input_updates + 1
    /\ UNCHANGED model_updates
    /\ UNCHANGED notTask4

(* end of the iteration: with torch.no_grad(): input[0] = 1; the two lines
   that would zero L = 1 and L >= 3 are commented out *)
ResetInput ==
    /\ net_pc = "alt_reset"
    /\ input' = ResetScalar(input)
    /\ iter' = iter + 1
    /\ net_pc' = "alt_model"
    /\ UNCHANGED <<task, weights, output, network, model_cls, moves, printed>>
    /\ UNCHANGED gradVars
    /\ UNCHANGED notTask4

(* range(101) is exhausted *)
AltLoopEnd ==
    /\ net_pc = "alt_model"
    /\ iter = AltIters
    /\ net_pc' = "optimised"
    /\ UNCHANGED <<task, input, weights, output, iter, network, model_cls, moves, printed>>
    /\ UNCHANGED gradVars
    /\ UNCHANGED notTask4

NextTask4 ==
    \/ GatedConvNetworkCell
    \/ GatedConvParityNetworkCell
    \/ Task4Cell
    \/ ParamStep
    \/ ParamLoopEnd
    \/ AltModelStep
    \/ AltInputStep
    \/ ResetInput
    \/ AltLoopEnd

InitTask4 == PipeIdle /\ RsIdle /\ NetInit /\ CallIdle /\ PermIdle /\ GradIdle

SpecTask4 == InitTask4 /\ [][NextTask4]_vars

----------------------------------------------------------------------------
(* Properties of Task 4 *)

(* the flat indices of degree 1 and of degree 3 and above *)
Frozen == {i \in Breaking : DegreeOf(i) = 1 \/ DegreeOf(i) >= 3}

(* C16: in the alternating loop only the L = 2 components of the input
   evolve: after every iteration input[0] is 1 and every component of
   degree 1 and of degree 3 and above still has its initial value 0. *)
C16_OnlyL2Evolves ==
    task = 4 /\ net_pc \in {"alt_model", "optimised"} =>
        /\ At(input, 0) = 1
        /\ \A i \in Frozen : At(input, i) = 0

(* the states from which the next step of the program is a forward pass
   model(input) *)
BeforeForward == task = 4 /\ net_pc \in {"param_loop", "alt_model", "alt_input"}

(* C20: in Task 4 input[0] is 1 at every forward pass of the model: it is 1
   after initialisation, the 21 steps of the parameter-only phase change no
   component of the input, and in each of the 101 alternating iterations
   the step of input_optimizer is followed by the reset input[0] = 1 before
   the next forward pass. *)
C20_ScalarIsOneAtForward ==
    /\ [](BeforeForward => At(input, 0) = 1)
    /\ [](task = 4 /\ net_pc = "param_loop" => input = Task4Input /\ iter <= 21)
    /\ [](task = 4 /\ net_pc \in {"alt_model", "alt_input", "alt_reset"} => iter <= 101)
    /\ [][ /\ net_pc = "bound" => At(input', 0) = 1
           /\ net_pc \in {"param_loop", "alt_model"} => input' = input
           /\ net_pc = "alt_reset" =>
                /\ net_pc' = "alt_model"
                /\ At(input', 0) = 1
                /\ \A i \in Breaking : At(input', i) = At(input, i)
           /\ net_pc' = "alt_model" /\ net_pc = "param_loop" => iter = 21
           /\ net_pc' = "optimised" => iter = 101
         ]_vars

(* the input optimizer has moved the scalar away from 1 in the last
   iteration and the reset has brought it back *)
C20_Witness ==
    /\ task = 4
    /\ net_pc = "optimised"
    /\ iter = 101
    /\ moves = 1
    /\ input = Task4Input
    /\ weights \in Task4Parameters

(* the gradient an optimizer has stepped with is that of one loss, the one
   of the half-iteration the step belongs to *)
SteppedWith(by, phase, i, half) ==
    applied = [by |-> by, grad |-> <<Loss(phase, i, half)>>]

(* C21: in the alternating loop of Task 4 each optimizer step consumes only
   the gradient of the loss of its own half-iteration: between an
   optimizer's zero_grad and its step there is exactly one backward pass,
   so what the other half's backward pass, or the parameter-only phase,
   accumulated on the same variables is cleared before it could be applied;
   model update and input update strictly alternate, model first, 101
   times each. *)
C21_StepsUseOwnGradient ==
    /\ [](task = 4 /\ applied.by # "none" => Len(applied.grad) = 1)
    /\ [](task = 4 =>
            /\ net_pc = "param_loop" /\ iter >= 1 =>
                  SteppedWith("model", "param", iter - 1, "model")
            /\ net_pc = "alt_model" /\ iter = 0 =>
                  SteppedWith("model", "param", 20, "model")
            /\ net_pc = "alt_input" => SteppedWith("model", "alt", iter, "model")
            /\ net_pc = "alt_reset" => SteppedWith("input", "alt", iter, "input")
            /\ net_pc \in {"alt_model", "optimised"} /\ iter >= 1 =>
                  SteppedWith("input", "alt", iter - 1, "input"))
    /\ [](task = 4 =>
            /\ net_pc = "alt_input" /\ iter = 0 =>
                  /\ Len(input_grad) = 22
                  /\ input_grad[1] = Loss("param", 0, "model")
                  /\ input_grad[22] = Loss("alt", 0, "model")
            /\ net_pc = "alt_input" /\ iter >= 1 =>
                  input_grad = <<Loss("alt", iter - 1, "input"),
                                 Loss("alt", iter, "model")>>
            /\ net_pc = "alt_model" /\ iter >= 1 =>
                  param_grad = <<Loss("alt", iter - 1, "model"),
                                 Loss("alt", iter - 1, "input")>>)
    /\ [](task = 4 =>
            /\ net_pc = "param_loop" => model_updates = 0 /\ input_updates = 0
            /\ net_pc = "alt_model" => model_updates = iter /\ input_updates = iter
            /\ net_pc = "alt_input" => model_updates = iter + 1 /\ input_updates = iter
            /\ net_pc = "alt_reset" => model_updates = iter + 1 /\ input_updates = iter + 1
            /\ net_pc = "optimised" => model_updates = 101 /\ input_updates = 101)
    /\ [][ /\ model_updates' # model_updates =>
                /\ model_updates' = model_updates + 1
                /\ input_updates = model_updates
                /\ input_updates' = input_updates
                /\ applied'.by = "model"
           /\ input_updates' # input_updates =>
                /\ input_updates' = input_updates + 1
                /\ model_updates = input_updates + 1
                /\ model_updates' = model_updates
                /\ applied.by = "model"
                /\ applied'.by = "input"
         ]_vars

(* the loop has ended: the last step was the 101st input update, and the
   parameters hold the gradients of both halves of the last iteration,
   which no step has used *)
C21_Witness ==
    /\ task = 4
    /\ net_pc = "optimised"
    /\ model_updates = 101
    /\ input_updates = 101
    /\ SteppedWith("input", "alt", 100, "input")
    /\ param_grad = <<Loss("alt", 100, "model"), Loss("alt", 100, "input")>>

----------------------------------------------------------------------------
(* The layout of the 36-entry input of simple_tasks_and_symmetry.ipynb *)

(* the header of the printed table: SH: 1 y z x xy yz * zx % *)
SHNames == <<"1", "y", "z", "x", "xy", "yz", "*", "zx", "%">>

(* faulty variant: the slice starts one entry late; a slice running past
   the end of the vector is cut there *)
Slice_shifted(in, L) ==
    SubSeq(in, L * L + 2,
           IF (L + 1) * (L + 1) + 1 <= Len(in) THEN (L + 1) * (L + 1) + 1 ELSE Len(in))

(* input[L**2:(L+1)**2] *)
Slice(in, L) == SubSeq(in, L * L + 1, (L + 1) * (L + 1))

(* input = torch.zeros((L_max + 1)**2); input[0] = 1; input[8] = 1 *)
Task3Input ==
    [i \in 1..((TaskLmax + 1) * (TaskLmax + 1)) |-> IF i - 1 \in {0, 8} THEN 1 ELSE 0]

(* inputs Task 4 may end with: the scalar 1 and at most one other component
   that is not zero *)
OptimisedInputs ==
    {[i \in 1..((TaskLmax + 1) * (TaskLmax + 1)) |->
        IF i - 1 = 0 THEN 1 ELSE IF i - 1 = j THEN v ELSE 0] :
        j \in 0..((TaskLmax + 1) * (TaskLmax + 1) - 1), v \in {-1, 1}}

(* the input cell of Task 3 *)
Task3InputCell ==
    /\ net_pc = "bound"
    /\ task' = 3
    /\ input' = Task3Input
    /\ net_pc' = "input3"
    /\ UNCHANGED <<weights, output, iter, network, model_cls, moves, printed>>
    /\ UNCHANGED notNet

(* the cells of Task 4 taken as one step: the input they leave behind *)
Task4Result ==
    /\ net_pc \in {"bound", "input3"}
    /\ task' = 4
    /\ input' \in OptimisedInputs
    /\ net_pc' = "optimised"
    /\ UNCHANGED <<weights, output, iter, network, model_cls, moves, printed>>
    /\ UNCHANGED notNet

(* one iteration of for L in range(L_max + 1): print(input[L**2:(L+1)**2]) *)
PrintSlice ==
    /\ net_pc \in {"optimised", "printing"}
    /\ Len(printed) <= TaskLmax
    /\ printed' = Append(printed, Slice(input, Len(printed)))
    /\ net_pc' = "printing"
    /\ UNCHANGED <<task, input, weights, output, iter, network, model_cls, moves>>
    /\ UNCHANGED notNet

NextLayout ==
    \/ GatedConvNetworkCell
    \/ GatedConvParityNetworkCell
    \/ Task3InputCell
    \/ Task4Result
    \/ PrintSlice

InitLayout == PipeIdle /\ RsIdle /\ NetInit /\ CallIdle /\ PermIdle /\ GradIdle

SpecLayout == InitLayout /\ [][NextLayout]_vars

(* C17: under the layout index = L^2 + m, the x^2 - y^2 coefficient Task 3
   sets, flat index 8, is (L = 2, m = 4), the 5th and last element of the
   L = 2 block, and stands at position 8, '%', of the printed basis order
   1 y z x xy yz * zx %; the 7th element of the L = 4 block is flat index
   22; each lies inside its block [L^2, (L+1)^2) of the 36-entry input. *)
C17_SymmetryBreakingIndices ==
    /\ Index(2, 4) = 8
    /\ DegreeOf(8) = 2 /\ OrderOf(8) = 4 /\ OrderOf(8) = 2 * DegreeOf(8)
    /\ 2 * 2 <= 8 /\ 8 < 3 * 3
    /\ Len(SHNames) = (TableLmax + 1) * (TableLmax + 1)
    /\ SHNames[8 + 1] = "%"
    /\ \A g \in 1..Len(SampleGrid) :
          Y(2, 4, SampleGrid[g]) =
              SampleGrid[g][1] * SampleGrid[g][1] - SampleGrid[g][2] * SampleGrid[g][2]
    /\ Index(4, 6) = 22
    /\ 4 * 4 <= 22 /\ 22 < 5 * 5
    /\ input # <<>> =>
        /\ Len(input) = 36
        /\ Len(Slice(input, 2)) = 5
        /\ Slice(input, 2)[5] = At(input, 8)
        /\ Slice(input, 4)[7] = At(input, 22)
    /\ task = 3 =>
        /\ At(input, 8) = 1
        /\ Slice(input, 2) = <<0, 0, 0, 0, 1>>
        /\ \A L \in (0..TaskLmax) \ {0, 2} : \A k \in 1..(2 * L + 1) : Slice(input, L)[k] = 0
    /\ \A L \in 0..(Len(printed) - 1) :
        /\ Len(printed[L + 1]) = 2 * L + 1
        /\ \A m \in 0..(2 * L) : printed[L + 1][m + 1] = At(input, Index(L, m))
    /\ Len(printed) > 2 => printed[3][5] = At(input, 8)
    /\ Len(printed) > 4 => printed[5][7] = At(input, 22)

C17_Witness ==
    /\ net_pc = "printing"
    /\ Len(printed) = TaskLmax + 1
    /\ At(input, 22) = 1
    /\ printed[5] = <<0, 0, 0, 0, 0, 0, 1, 0, 0>>
    /\ printed[3] = <<0, 0, 0, 0, 0>>

----------------------------------------------------------------------------
(* The 3x3 matrix of data_types.ipynb: permuted to (y, z, x), rotated as a
   representation vector and converted back *)

(* values M = torch.randn(3, 3) may take *)
Matrices == [1..3 -> [1..3 -> 0..MatMax]]

(* the position at which the index tensor [1, 2, 0] holds a given index *)
PermInv(a) == CHOOSE i \in 1..3 : Perm[i] = a

(* faulty variant: the permuted indices are read, as in perm_M, instead of
   written *)
Scatter_read(X) == Gather(X)

(* rotated_M_prime = rotated_perm_M.clone()
   rotated_M_prime[[1, 2, 0], [1, 2, 0]] = rotated_perm_M.clone():
   entry (i, j) of the right-hand side lands at (perm[i], perm[j]) *)
Scatter(X) == [a \in 1..3 |-> [b \in 1..3 |-> X[PermInv(a)][PermInv(b)]]]

(* torch.einsum('ki,ij,lj->kl', rot, M, rot) *)
einsum_ki_ij_lj(R, A) == MatMul(MatMul(R, A), Transpose(R))

(* I = C perm_M, rotated_I = wignerD I, rotated_perm_M = C^T rotated_I: the
   matrix in (y, z, x) order rotated by the rotation written in that order *)
RotateAsIrreps(R, A) == einsum_ki_ij_lj(Gather(R), A)

PermInit ==
    /\ perm_pc = "start"
    /\ M = <<>>
    /\ perm_M = <<>>
    /\ rotated_M = <<>>
    /\ rotated_perm_M = <<>>
    /\ rotated_M_prime = <<>>

(* M = torch.randn(3, 3); perm_M = M.clone()[[1, 2, 0], [1, 2, 0]] *)
PermuteCell ==
    /\ perm_pc = "start"
    /\ M' \in Matrices
    /\ perm_M' = Gather(M')
    /\ perm_pc' = "permuted"
    /\ UNCHANGED <<rotated_M, rotated_perm_M, rotated_M_prime>>
    /\ UNCHANGED notPerm

(* the rotation cell: rotated_M, the round trip through the representation
   vector, and the conversion back to (x, y, z) order *)
RotationCell ==
    /\ perm_pc = "permuted"
    /\ \E R \in Rotations :
        /\ rotated_M' = einsum_ki_ij_lj(R, M)
        /\ rotated_perm_M' = RotateAsIrreps(R, perm_M)
    /\ rotated_M_prime' = Scatter(rotated_perm_M')
    /\ perm_pc' = "rotated"
    /\ UNCHANGED <<M, perm_M>>
    /\ UNCHANGED notPerm

NextPerm ==
    \/ PermuteCell
    \/ RotationCell

InitPerm == PipeIdle /\ RsIdle /\ NetIdle /\ CallIdle /\ PermInit /\ GradIdle

SpecPerm == InitPerm /\ [][NextPerm]_vars

(* C18: the index permutation round-trips: for every 3x3 matrix A, reading
   A at rows and columns [1, 2, 0] and then scatter-assigning the result at
   rows and columns [1, 2, 0] of a fresh matrix reproduces A entry for
   entry, so rotated_M_prime is in the original (x, y, z) index order. *)
C18_PermutationRoundTrip ==
    /\ perm_pc \in {"permuted", "rotated"} =>
        /\ \A i, j \in 1..3 : perm_M[i][j] = M[<<2, 3, 1>>[i]][<<2, 3, 1>>[j]]
        /\ \A i, j \in 1..3 : Scatter(perm_M)[i][j] = M[i][j]
    /\ perm_pc = "rotated" =>
        /\ \A i, j \in 1..3 :
              rotated_M_prime[<<2, 3, 1>>[i]][<<2, 3, 1>>[j]] = rotated_perm_M[i][j]
        /\ \A i, j \in 1..3 : rotated_M_prime[i][j] = rotated_M[i][j]

C18_Witness ==
    /\ perm_pc = "rotated"
    /\ M = <<<<0, 1, 0>>, <<0, 0, 1>>, <<0, 0, 0>>>>
    /\ perm_M = <<<<0, 1, 0>>, <<0, 0, 0>>, <<1, 0, 0>>>>
    /\ rotated_M # M
    /\ rotated_perm_M # rotated_M
    /\ rotated_M_prime = rotated_M

----------------------------------------------------------------------------
(* Calls of from_geometry, evaluate and rotate, one accumulation step at a
   time, two of them side by side *)

Slots == {1, 2}

(* number of basis functions up to degree lmax *)
NumBasis(lmax) == (lmax + 1) * (lmax + 1)

(* arguments of the calls *)
CallPoint1 == <<1, 2, 2>>

CallPoint2 == <<0, 0, 2>>

CallGeometries == {<<CallPoint1, CallPoint2>>, <<CallPoint1, Origin>>}

CallTensors ==
    {from_geometry(<<CallPoint1, CallPoint2>>, l, FALSE, FALSE, 0).tensor : l \in 0..CallLmax}

CallDirections == {<<CallPoint1>>, <<<<0, 0, 3>>, CallPoint1>>}

FromGeometryArgs ==
    {[NoArgs EXCEPT !.points = G, !.lmax = l] : G \in CallGeometries, l \in 0..CallLmax}

EvaluateArgs ==
    {[NoArgs EXCEPT !.tensor = t, !.directions = ds] : t \in CallTensors, ds \in CallDirections}

RotateArgs ==
    {[NoArgs EXCEPT !.tensor = t, !.R = R] : t \in CallTensors, R \in {Rz90}}

(* faulty variant: one step per point or direction, whatever the degree bound *)
TotalSteps_flat(op, a) ==
    CASE op = "from_geometry" -> Len(a.points)
      [] op = "evaluate" -> Len(a.directions)
      [] op = "rotate" -> 1

(* accumulation steps a call takes *)
TotalSteps(op, a) ==
    CASE op = "from_geometry" -> Len(a.points) * NumBasis(a.lmax)
      [] op = "evaluate" -> Len(a.directions) * Len(a.tensor.signal)
      [] op = "rotate" -> 1

(* faulty variant: every call accumulates into the same buffer *)
BufOf_shared(c) == 1

(* the accumulator of the call in slot c: its own *)
BufOf(c) == c

(* the accumulator a call starts from *)
FreshBuf(op, a) ==
    CASE op = "from_geometry" -> Zeros(NumBasis(a.lmax))
      [] op = "evaluate" -> Zeros(Len(a.directions))
      [] op = "rotate" -> Zeros(Len(a.tensor.signal))

(* step k of from_geometry: point k div nb, basis function k mod nb *)
ProjectStep(buf, a, k) ==
    LET nb == NumBasis(a.lmax)
        p == a.points[(k \div nb) + 1]
        i == k % nb
    IN  AddBasis(buf, Weight(p, FALSE), Direction(p), DegreeOf(i), OrderOf(i))

(* faulty variant: the term stored in place of the running sum *)
EvalStep_overwrite(buf, a, k) ==
    LET nb == Len(a.tensor.signal)
        j == (k \div nb) + 1
        i == k % nb
    IN  [buf EXCEPT ![j] = At(a.tensor.signal, i) * Y(DegreeOf(i), OrderOf(i), a.directions[j])]

(* step k of evaluate: direction k div nb, basis function k mod nb *)
EvalStep(buf, a, k) ==
    LET nb == Len(a.tensor.signal)
        j == (k \div nb) + 1
        i == k % nb
    IN  [buf EXCEPT ![j] = @ + At(a.tensor.signal, i) * Y(DegreeOf(i), OrderOf(i), a.directions[j])]

(* torch.set_default_dtype(torch.float64), in the first cell of a notebook,
   before any call *)
SetDefaultDtype ==
    /\ default_dtype = "float32"
    /\ \A c \in Slots : calls[c].status = "idle"
    /\ prev_eval = NoCall
    /\ default_dtype' = "float64"
    /\ UNCHANGED <<calls, bufs, prev_eval>>
    /\ UNCHANGED notCalls

(* a call enters slot c; from_geometry refuses a point at the origin *)
Begin(c) ==
    /\ calls[c].status = "idle"
    /\ default_dtype = "float64"
    /\ \E op \in {"from_geometry", "evaluate", "rotate"} :
       \E a \in (CASE op = "from_geometry" -> FromGeometryArgs
                   [] op = "evaluate" -> EvaluateArgs
                   [] op = "rotate" -> RotateArgs) :
          IF op = "from_geometry" /\ HasOrigin(a.points)
          THEN /\ calls' = [calls EXCEPT ![c] =
                              [NoCall EXCEPT !.op = op, !.args = a, !.status = "failed",
                                             !.dtype = default_dtype,
                                             !.err = "InvalidInputError"]]
               /\ UNCHANGED bufs
          ELSE /\ calls' = [calls EXCEPT ![c] =
                              [NoCall EXCEPT !.op = op, !.args = a, !.status = "running",
                                             !.dtype = default_dtype]]
               /\ bufs' = [bufs EXCEPT ![BufOf(c)] = FreshBuf(op, a)]
    /\ UNCHANGED <<default_dtype, prev_eval>>
    /\ UNCHANGED notCalls

(* the call in slot c has a step to take: nothing else is waited for *)
CanStep(c) ==
    /\ calls[c].status = "running"
    /\ calls[c].k < TotalSteps(calls[c].op, calls[c].args)

(* the call in slot c has taken its steps *)
CanReturn(c) ==
    /\ calls[c].status = "running"
    /\ calls[c].k = TotalSteps(calls[c].op, calls[c].args)

(* one accumulation step of the call in slot c *)
Step(c) ==
    /\ CanStep(c)
    /\ LET a == calls[c].args
           buf == bufs[BufOf(c)]
       IN  bufs' = [bufs EXCEPT ![BufOf(c)] =
                CASE calls[c].op = "from_geometry" -> ProjectStep(buf, a, calls[c].k)
                  [] calls[c].op = "evaluate" -> EvalStep(buf, a, calls[c].k)
                  [] calls[c].op = "rotate" ->
                        einsum_ij_j(wignerD(a.tensor.Rs, a.R), a.tensor.signal)]
    /\ calls' = [calls EXCEPT ![c].k = @ + 1]
    /\ UNCHANGED <<default_dtype, prev_eval>>
    /\ UNCHANGED notCalls

(* the call in slot c returns its result *)
Return(c) ==
    /\ CanReturn(c)
    /\ calls' = [calls EXCEPT ![c].status = "done", ![c].result = bufs[BufOf(c)]]
    /\ UNCHANGED <<bufs, default_dtype, prev_eval>>
    /\ UNCHANGED notCalls

(* the caller takes the result or the error; the slot is free again *)
Take(c) ==
    /\ calls[c].status \in {"done", "failed"}
    /\ prev_eval' = IF calls[c].op = "evaluate" THEN calls[c] ELSE prev_eval
    /\ calls' = [calls EXCEPT ![c] = NoCall]
    /\ UNCHANGED <<bufs, default_dtype>>
    /\ UNCHANGED notCalls

CallInit ==
    /\ calls = <<NoCall, NoCall>>
    /\ bufs = <<<<>>, <<>>>>
    /\ default_dtype = "float32"
    /\ prev_eval = NoCall

NextCalls ==
    \/ SetDefaultDtype
    \/ \E c \in Slots : Begin(c)
    \/ \E c \in Slots : Step(c)
    \/ \E c \in Slots : Return(c)
    \/ \E c \in Slots : Take(c)

InitCalls == PipeIdle /\ RsIdle /\ NetIdle /\ CallInit /\ PermIdle /\ GradIdle

SpecCalls == InitCalls /\ [][NextCalls]_vars

----------------------------------------------------------------------------
(* Properties of the calls *)

(* the signal of tensor t at direction d: the sum over all flat indices of
   coefficient times basis-function value *)
SignalAt(t, d) ==
    SeqSum([i \in 1..Len(t.signal) |->
              t.signal[i] * Y(DegreeOf(i - 1), OrderOf(i - 1), d)])

(* C11: evaluate is deterministic and pure: a returned sequence has the
   length and order of directions, each value is the sum over all (L, m) of
   coefficient times basis-function value at that direction, and two calls
   with equal (tensor, directions) return equal sequences, whatever calls
   ran in between or alongside. *)
C11_EvaluatePure ==
    \A c \in Slots :
        (calls[c].op = "evaluate" /\ calls[c].status = "done") =>
            /\ Len(calls[c].result) = Len(calls[c].args.directions)
            /\ \A j \in 1..Len(calls[c].result) :
                  calls[c].result[j] = SignalAt(calls[c].args.tensor, calls[c].args.directions[j])
            /\ prev_eval.args = calls[c].args => prev_eval.result = calls[c].result
            /\ \A b \in Slots :
                  (calls[b].op = "evaluate" /\ calls[b].status = "done"
                   /\ calls[b].args = calls[c].args) => calls[b].result = calls[c].result

C11_Witness ==
    /\ calls[1].op = "evaluate"
    /\ calls[1].status = "done"
    /\ Len(calls[1].args.directions) = 2
    /\ calls[1].args.tensor.signal # Zeros(Len(calls[1].args.tensor.signal))
    /\ prev_eval.args = calls[1].args
    /\ calls[2].op = "rotate"
    /\ calls[2].status = "done"

(* what the call gives when it runs alone, start to end *)
Alone(op, a) ==
    CASE op = "from_geometry" ->
            LET r == from_geometry(a.points, a.lmax, FALSE, FALSE, 0)
            IN  [err |-> r.err, result |-> r.tensor.signal]
      [] op = "evaluate" -> [err |-> "none", result |-> evaluate(a.tensor, a.directions)]
      [] op = "rotate" -> [err |-> "none", result |-> rotate(a.tensor, a.R, 0).result.signal]

ReturnedAlone(c) ==
    /\ calls[c].status = "done" =>
          /\ Alone(calls[c].op, calls[c].args).err = "none"
          /\ calls[c].result = Alone(calls[c].op, calls[c].args).result
    /\ calls[c].status = "failed" =>
          /\ calls[c].err = Alone(calls[c].op, calls[c].args).err
          /\ calls[c].err # "none"

(* C12: calls on independent inputs share no mutable state: under every
   interleaving of the steps of two calls, each call returns (or fails with)
   exactly what it returns when run alone, and each call's accumulator is
   its own: it is as long as that call's result and is never the other
   call's. *)
C12_CallsIndependent ==
    \A c \in Slots :
        /\ ReturnedAlone(c)
        /\ calls[c].status \in {"running", "done"} =>
              Len(bufs[c]) = Len(Alone(calls[c].op, calls[c].args).result)

C12_Witness ==
    /\ calls[1].op = "from_geometry"
    /\ calls[1].status = "done"
    /\ calls[1].args.lmax = 1
    /\ calls[2].op = "evaluate"
    /\ calls[2].status = "running"
    /\ calls[2].k = 1
    /\ bufs[1] # Zeros(Len(bufs[1]))
    /\ bufs[2] # Zeros(Len(bufs[2]))

(* points or directions of a call, and basis functions up to its L_max *)
Items(c) ==
    IF calls[c].op = "from_geometry" THEN Len(calls[c].args.points)
    ELSE Len(calls[c].args.directions)

BasisCount(c) ==
    IF calls[c].op = "from_geometry"
    THEN (calls[c].args.lmax + 1) * (calls[c].args.lmax + 1)
    ELSE (LmaxOf(calls[c].args.tensor) + 1) * (LmaxOf(calls[c].args.tensor) + 1)

(* C14: every from_geometry and evaluate call terminates: the steps left,
   (points or directions) x (L_max+1)^2 less the steps taken, are never
   negative; while some are left the call can take a step and cannot
   return, and a step takes exactly one of them; when none is left the call
   returns; a running call is never cancelled or timed out: it leaves the
   running state only by returning. *)
C14_CallsTerminate ==
    /\ [](\A c \in Slots :
            calls[c].op \in {"from_geometry", "evaluate"} =>
                /\ calls[c].status = "running" =>
                      /\ calls[c].k <= Items(c) * BasisCount(c)
                      /\ calls[c].k < Items(c) * BasisCount(c) =>
                            CanStep(c) /\ ~CanReturn(c)
                      /\ calls[c].k = Items(c) * BasisCount(c) =>
                            CanReturn(c) /\ ~CanStep(c)
                /\ calls[c].status = "done" => calls[c].k = Items(c) * BasisCount(c))
    /\ [][ \A c \in Slots :
            (calls[c].status = "running" /\ calls'[c] # calls[c]) =>
                \/ calls'[c] = [calls[c] EXCEPT !.k = @ + 1]
                \/ calls'[c] = [calls[c] EXCEPT !.status = "done", !.result = bufs[c]]
       ]_vars

C14_Witness ==
    /\ calls[1].op = "from_geometry"
    /\ calls[1].status = "done"
    /\ Len(calls[1].args.points) = 2
    /\ calls[1].args.lmax = 1
    /\ calls[1].k = 8
    /\ calls[2].op = "evaluate"
    /\ calls[2].status = "done"
    /\ calls[2].k = 8
====
